---- MODULE Spec2Model ----
(***************************************************************************)
(* Batched joint intent / slot prediction of pytorch-nlu:                  *)
(*   src/predict.py     generate, prepare_model, PredictorWithProgress,    *)
(*                      save                                               *)
(*   src/models/jlu.py  RNNBasedJLU.forward / predict                      *)
(* inference.Predictor (the run loop that calls the hooks) and             *)
(* models.utils.BeamSearchDecoder are modules these two files import; what *)
(* they do is taken from the design document, sections 4.3 and 4.1.        *)
(* Scores are integers: a log-probability is counted in units of           *)
(* log 2 and a probability in units of 1/FixedOne, so exp and the          *)
(* normalisations are computed, in fixed point.                            *)
(***************************************************************************)
EXTENDS Integers, Sequences, FiniteSets, TLC

VARIABLES args, dataset, sortTies, pc, model, predictor, gradEnabled,
          fetched, stashed, scored, started, preds, progress, trace,
          returned, selected, files, error, widthUsed, call, ret

vars == <<args, dataset, sortTies, pc, model, predictor, gradEnabled,
          fetched, stashed, scored, started, preds, progress, trace,
          returned, selected, files, error, widthUsed, call, ret>>

----------------------------------------------------------------------------
(* Bounds of the model *)

\* largest dataset (number of examples)
MaxN == 3
\* largest --batch-size and --top-k drawn for a run
MaxBatchSize == 3
MaxTopK == 2
\* largest k and padded length drawn for a direct call of predict
MaxK == 3
MaxLen == 2
\* one probability unit is 1/FixedOne
FixedOne == 1024

\* word ids of the word vocabulary, label ids of the slot and intent ones
WordVocab == {0, 1}
SlotVocab == {0, 1}
IntentVocab == {0, 1}
\* raw score values of a drawn score tensor
Scores == {0, 1}
IntentScores == {0, 1, 2}
\* the sentences a dataset is drawn from (tensorized word ids)
Utterances == {<<1>>, <<0, 1>>}
\* values of --beam-size (6 is the default, predict.py line 48)
BeamSizes == {1, 6}
\* the data-loader workers (--data-workers)
Workers == {1, 2}
\* how the build's unstable sort orders equal keys
TiePolicies == {"lower_first", "higher_first"}

----------------------------------------------------------------------------
(* Arithmetic helpers *)

RECURSIVE Pow2(_)
Pow2(n) == IF n <= 0 THEN 1 ELSE 2 * Pow2(n - 1)

RECURSIVE SumOver(_, _)
SumOver(S, f) ==
    IF S = {} THEN 0
    ELSE LET x == CHOOSE y \in S : TRUE IN f[x] + SumOver(S \ {x}, f)

Min(a, b) == IF a <= b THEN a ELSE b

Max(a, b) == IF a >= b THEN a ELSE b

RECURSIVE MaxOf(_)
MaxOf(S) == LET x == CHOOSE y \in S : TRUE
            IN IF S = {x} THEN x ELSE Max(x, MaxOf(S \ {x}))

RECURSIVE SeqSum(_)
SeqSum(s) == IF s = <<>> THEN 0 ELSE Head(s) + SeqSum(Tail(s))

\* the sequence s as an explicit tuple, its elements evaluated once
Tup(s) == s \o <<>>

RECURSIVE Flatten(_)
Flatten(ss) == IF ss = <<>> THEN <<>> ELSE Head(ss) \o Flatten(Tail(ss))

----------------------------------------------------------------------------
(* torch functions, as RNNBasedJLU.predict uses them *)

MinOf(S) == 0 - MaxOf({0 - x : x \in S})

\* log-sum-exp of a row of scores, rounded up to a whole unit
LogSumExp(x) ==
    LET z == SumOver(DOMAIN x, [c \in DOMAIN x |-> Pow2(x[c])])
        hi == MaxOf({x[c] : c \in DOMAIN x}) + Cardinality(DOMAIN x)
    IN CHOOSE n \in 0..hi : Pow2(n) >= z /\ (n = 0 \/ Pow2(n - 1) < z)

\* F.log_softmax over the class axis
log_softmax(x) ==
    LET lse == LogSumExp(x)
    IN [c \in DOMAIN x |-> x[c] - lse]

\* F.softmax over the class axis
softmax(x) ==
    LET z == SumOver(DOMAIN x, [c \in DOMAIN x |-> Pow2(x[c])])
    IN [c \in DOMAIN x |-> (Pow2(x[c]) * FixedOne) \div z]

\* Tensor.exp() of a log-probability (<= 0)
exp(lp) == FixedOne \div Pow2(0 - lp)

\* the ids of S by descending p; the sort is not asked to be stable, so equal
\* keys come in the order the build's routine leaves them in (ties)
RECURSIVE SortDesc(_, _, _)
SortDesc(p, S, ties) ==
    IF S = {} THEN <<>>
    ELSE LET top == MaxOf({p[c] : c \in S})
             eq == {c \in S : p[c] = top}
             first == IF ties = "lower_first" THEN MinOf(eq) ELSE MaxOf(eq)
         IN <<first>> \o SortDesc(p, S \ {first}, ties)

\* torch.sort(p, 1, True) on one row: (values, indices)
torch_sort(p, ties) ==
    LET idx == SortDesc(p, DOMAIN p, ties)
    IN [values |-> Tup([i \in 1..Len(idx) |-> p[idx[i]]]), indices |-> idx]

\* the slice s[:k]
Take(s, k) == SubSeq(s, 1, Min(k, Len(s)))

----------------------------------------------------------------------------
(* models.utils.BeamSearchDecoder, from spec.md section 4.1 *)

\* the number of label classes of a row of log-probabilities
NumClasses(row) == Cardinality(DOMAIN row)

\* every live hypothesis extended by every label id, in (hypothesis index,
\* label id) order
Extend(live, row) ==
    LET V == NumClasses(row)
    IN Tup([j \in 1..(Len(live) * V) |->
              LET h == ((j - 1) \div V) + 1
                  c == (j - 1) % V
              IN [seq |-> Append(live[h].seq, c),
                  score |-> live[h].score + row[c]]])

RemoveAt(s, i) == SubSeq(s, 1, i - 1) \o SubSeq(s, i + 1, Len(s))

\* the k highest-scoring candidates in descending order, equal scores in the
\* stable order of the candidates
RECURSIVE TopK(_, _)
TopK(cands, k) ==
    IF k <= 0 \/ cands = <<>> THEN <<>>
    ELSE LET top == MaxOf({cands[j].score : j \in 1..Len(cands)})
             i == CHOOSE j \in 1..Len(cands) :
                     /\ cands[j].score = top
                     /\ \A j2 \in 1..(j - 1) : cands[j2].score # top
         IN <<cands[i]>> \o TopK(RemoveAt(cands, i), k - 1)

\* positions t..max length of one example: a position below the true length
\* extends and prunes, a position at or beyond it leaves the beam frozen
RECURSIVE BeamSteps(_, _, _, _, _)
BeamSteps(live, lp, len, k, t) ==
    IF t > Len(lp) THEN live
    ELSE BeamSteps(IF t <= len THEN TopK(Extend(live, lp[t]), k) ELSE live,
                   lp, len, k, t + 1)

\* BeamSearchDecoder(slot_logprobs, lens, k).decode(): per example the
\* candidates and their cumulative log-probabilities
BeamSearchDecoder_decode(slot_logprobs, lens, k) ==
    Tup([b \in 1..Len(slot_logprobs) |->
            BeamSteps(<<[seq |-> <<>>, score |-> 0]>>, slot_logprobs[b],
                      lens[b], k, 1)])

----------------------------------------------------------------------------
(* RNNBasedJLU, src/models/jlu.py *)

num_words == Cardinality(WordVocab)
num_slots == Cardinality(SlotVocab)
num_intents == Cardinality(IntentVocab)

\* the hidden state of a padded position
ZeroState == num_words

\* the trained parameters ckpt["model"]: the slot head has num_slots + 1
\* classes and the intent head num_intents + 1, one row per hidden state
Checkpoint ==
    [slot   |-> (0 :> (0 :> 2 @@ 1 :> 0 @@ 2 :> 0)) @@
                (1 :> (0 :> 1 @@ 1 :> 1 @@ 2 :> 0)) @@
                (2 :> (0 :> 0 @@ 1 :> 0 @@ 2 :> 2)),
     intent |-> (0 :> (0 :> 2 @@ 1 :> 1 @@ 2 :> 0)) @@
                (1 :> (0 :> 0 @@ 1 :> 1 @@ 2 :> 0)) @@
                (2 :> (0 :> 0 @@ 1 :> 0 @@ 2 :> 0))]

\* the parameters reset_parameters() leaves before the checkpoint is loaded
ResetParams ==
    [slot   |-> [s \in 0..num_words |-> [c \in 0..num_slots |-> 0]],
     intent |-> [s \in 0..num_words |-> [c \in 0..num_intents |-> 0]]]

\* self.rnn(w, lens): the hidden states, zero at and beyond the true length
rnn(w, lens) ==
    Tup([b \in 1..Len(w) |->
            Tup([t \in 1..Len(w[b]) |->
                    IF t <= lens[b] THEN w[b][t] ELSE ZeroState])])

\* forward(w, None, lens): (lgts, igts)
forward(self, w, lens) ==
    LET hs == rnn(w, lens)
    IN [lgts |-> Tup([b \in 1..Len(w) |->
                    Tup([t \in 1..Len(hs[b]) |-> self.params.slot[hs[b][t]]])]),
        igts |-> Tup([b \in 1..Len(w) |->
                    [c \in 0..num_intents |->
                        SeqSum([t \in 1..Len(hs[b]) |->
                                   self.params.intent[hs[b][t]][c]])]])]

\* beam_width taking the width generate stored on the model
beam_width_configured(self, topk) == self.beam_size

\* the beam width predict hands to the decoder (line 109)
beam_width(self, topk) == topk

\* predict_slots with the padded length handed to the decoder in place of
\* the true lengths
predict_slots_padded(lgts, lens, width) ==
    LET slot_logprobs ==
            Tup([b \in 1..Len(lgts) |->
                    Tup([t \in 1..Len(lgts[b]) |-> log_softmax(lgts[b][t])])])
        bs == BeamSearchDecoder_decode(slot_logprobs,
                  [b \in 1..Len(lgts) |-> Len(lgts[b])], width)
    IN Tup([b \in 1..Len(lgts) |->
              [candidates |-> Tup([i \in 1..Len(bs[b]) |-> bs[b][i].seq]),
               probs |-> Tup([i \in 1..Len(bs[b]) |-> exp(bs[b][i].score)])]])

\* lines 108-111: log-softmax, beam search, exp
predict_slots(lgts, lens, width) ==
    LET slot_logprobs ==
            Tup([b \in 1..Len(lgts) |->
                    Tup([t \in 1..Len(lgts[b]) |-> log_softmax(lgts[b][t])])])
        bs == BeamSearchDecoder_decode(slot_logprobs, lens, width)
    IN Tup([b \in 1..Len(lgts) |->
              [candidates |-> Tup([i \in 1..Len(bs[b]) |-> bs[b][i].seq]),
               probs |-> Tup([i \in 1..Len(bs[b]) |-> exp(bs[b][i].score)])]])

\* lines 112-115: softmax, descending sort, first topk columns
predict_intents(igts, topk, ties) ==
    Tup([b \in 1..Len(igts) |->
            LET s == torch_sort(softmax(igts[b]), ties)
            IN [candidates |-> Take(s.indices, topk),
                probs |-> Take(s.values, topk)]])

\* predict(w, lens, topk): ((slot_candidates, slot_probs),
\*                          (intent_candidates, intent_probs))
predict(self, w, lens, topk, ties) ==
    LET fw == forward(self, w, lens)
    IN [slots |-> predict_slots(fw.lgts, lens, beam_width(self, topk)),
        intents |-> predict_intents(fw.igts, topk, ties)]

----------------------------------------------------------------------------
(* The data loader of generate, src/predict.py lines 234-241 *)

\* number of batches: shuffle and drop_last are left at their defaults
NumBatches(n, bs) == (n + bs - 1) \div bs

\* BatchIndices with a sampler that runs through the dataset backwards, as a
\* sampler that does not keep the input order may
BatchIndices_reversed(n, bs, b) ==
    Tup([j \in 1..Min(bs, n - (b - 1) * bs) |-> n + 1 - ((b - 1) * bs + j)])

\* the dataset indices of batch b, in the sequential sampler's order
BatchIndices(n, bs, b) ==
    Tup([j \in 1..Min(bs, n - (b - 1) * bs) |-> (b - 1) * bs + j])

\* the padding id of the words: pad_idxs = [len(v) for v in vocabs]
pad_idx == num_words

\* dataset.TextSequenceBatchCollator: the raw sentences, their ids padded to
\* the longest of the batch, and the true lengths
collate(dset, idxs) ==
    LET T == MaxOf({Len(dset[idxs[j]]) : j \in 1..Len(idxs)})
    IN [string |-> Tup([j \in 1..Len(idxs) |-> dset[idxs[j]]]),
        tensor |-> <<[x |-> Tup([j \in 1..Len(idxs) |->
                              Tup([t \in 1..T |->
                                     IF t <= Len(dset[idxs[j]])
                                     THEN dset[idxs[j]][t] ELSE pad_idx])]),
                      lens |-> Tup([j \in 1..Len(idxs) |->
                                      Len(dset[idxs[j]])])]>>]

\* batch b as the loader yields it
LoaderBatch(dset, bs, b) == collate(dset, BatchIndices(Len(dset), bs, b))

\* the worker that fetches batch b (batches are dealt round robin)
WorkerOf(b) == ((b - 1) % Cardinality(Workers)) + 1

----------------------------------------------------------------------------
(* PredictorWithProgress, src/predict.py lines 107-139, and the run loop of
   inference.Predictor, from spec.md section 4.3 *)

\* vocab.i2f.get(id, unk) for the slot and the intent vocabulary
SlotName(i) == IF i = 0 THEN "O" ELSE IF i = 1 THEN "B-x" ELSE "<unk>"
IntentName(i) == IF i = 0 THEN "greet" ELSE IF i = 1 THEN "book" ELSE "<unk>"

\* " ".join(toks): a string is the sequence of its tokens and blanks
RECURSIVE join(_)
join(toks) ==
    IF Len(toks) <= 1 THEN toks
    ELSE <<Head(toks), " ">> \o join(Tail(toks))

\* s.split()
split(s) == SelectSeq(s, LAMBDA tok : tok # " ")

\* a decoded id sequence as a sentence, for the slot and the intent vocabulary
slot_sent(ids) == join([t \in 1..Len(ids) |-> SlotName(ids[t])])
intent_sent(ids) == join([t \in 1..Len(ids) |-> IntentName(ids[t])])

\* select_data (lines 113-114)
select_data(data) == data[1]

\* model_call (lines 116-117): self.model.predict(*data, self.topk)
model_call(self, mdl, data, ties) ==
    predict(mdl, data.x, data.lens, self.topk, ties)

\* steps b-e of the loop for one batch: the per-example entries, in the
\* batch's order
BatchEntries(self, mdl, batch, ties) ==
    LET out == model_call(self, mdl, select_data(batch.tensor), ties)
    IN Tup([j \in 1..Len(batch.string) |->
              [labels |-> Tup([i \in 1..Len(out.slots[j].candidates) |->
                              slot_sent(out.slots[j].candidates[i])]),
               pl |-> out.slots[j].probs,
               intents |-> Tup([i \in 1..Len(out.intents[j].candidates) |->
                               intent_sent(<<out.intents[j].candidates[i]>>)]),
               pi |-> out.intents[j].probs]])

\* the result collection the run returns: (labels, pl), (intents, pi)
Collection(entries) ==
    [labels |-> [i \in 1..Len(entries) |-> entries[i].labels],
     pl |-> [i \in 1..Len(entries) |-> entries[i].pl],
     intents |-> [i \in 1..Len(entries) |-> entries[i].intents],
     pi |-> [i \in 1..Len(entries) |-> entries[i].pi]]

\* on_run_started (lines 119-126): tqdm(total=len(dataloader.dataset))
on_run_started(dset) == [state |-> "open", total |-> Len(dset), n |-> 0]

\* on_batch_started counting one per batch instead of one per example
on_batch_started_one(prog, batch) == [prog EXCEPT !.n = @ + 1]

\* on_batch_started (lines 128-131): progress.update(len(batch["string"]))
on_batch_started(prog, batch) == [prog EXCEPT !.n = @ + Len(batch.string)]

\* on_run_finished (lines 133-136): progress.close()
on_run_finished(prog) == [prog EXCEPT !.state = "closed"]

----------------------------------------------------------------------------
(* prepare_model and save, src/predict.py *)

\* load_state_dict leaving the reset parameters in place
load_state_dict_skipped(params, ckpt) == params

\* mdl.load_state_dict(ckpt["model"]): every parameter takes the stored value
load_state_dict(params, ckpt) == ckpt

\* prepare_model (lines 72-104): with expand_vocab the branch is a bare pass,
\* so the return statement reads the unbound local vocab
prepare_model(a) ==
    IF a.expand_vocab
    THEN [error |-> "UnboundLocalError", mdl |-> <<>>]
    ELSE [error |-> "none",
          mdl |-> <<[params |-> load_state_dict(ResetParams, Checkpoint),
                     beam_size |-> 0]>>]

\* str(p) of a probability: integer part and 1/FixedOne units
py_str(p) == <<p \div FixedOne, ".", p % FixedOne>>

\* lines 261-262: the first candidate of every example
first_candidates(r) ==
    [labels |-> [i \in 1..Len(r.labels) |-> r.labels[i][1]],
     intents |-> [i \in 1..Len(r.intents) |-> r.intents[i][1]],
     pl |-> [i \in 1..Len(r.pl) |-> r.pl[i][1]],
     pi |-> [i \in 1..Len(r.pi) |-> r.pi[i][1]]]

\* the files of save in the order they are written (lines 212-213)
FileNames == <<"label", "intent", "label-probs", "intent-probs">>

\* samples with the two probability lists in each other's place
samples_swapped(sel, f) ==
    IF f = 1 THEN [i \in 1..Len(sel.labels) |-> join(split(sel.labels[i]))]
    ELSE IF f = 2 THEN sel.intents
    ELSE IF f = 3 THEN [i \in 1..Len(sel.pi) |-> py_str(sel.pi[i])]
    ELSE [i \in 1..Len(sel.pl) |-> py_str(sel.pl[i])]

\* save (lines 209-211): the samples of file number f
samples(sel, f) ==
    IF f = 1 THEN [i \in 1..Len(sel.labels) |-> join(split(sel.labels[i]))]
    ELSE IF f = 2 THEN sel.intents
    ELSE IF f = 3 THEN [i \in 1..Len(sel.pl) |-> py_str(sel.pl[i])]
    ELSE [i \in 1..Len(sel.pi) |-> py_str(sel.pi[i])]

\* lines 216-218: f.write(f"{sample}\n") for every sample
written_file(data) ==
    [written |-> TRUE, lines |-> [i \in 1..Len(data) |-> <<data[i], "\n">>]]

NoFile == [written |-> FALSE, lines |-> <<>>]

----------------------------------------------------------------------------
(* A run of generate, src/predict.py lines 225-266 *)

Datasets == UNION {[1..n -> Utterances] : n \in 1..MaxN}

ArgSets ==
    {a \in [batch_size : 1..MaxBatchSize, top_k : 1..MaxTopK,
            beam_size : BeamSizes, expand_vocab : BOOLEAN,
            emb_has_markers : BOOLEAN] :
        a.expand_vocab \/ a.emb_has_markers}

NoProgress == [state |-> "none", total |-> 0, n |-> 0]

NoCall == [op |-> "none"]

Init ==
    /\ args \in ArgSets
    /\ dataset \in Datasets
    /\ sortTies \in TiePolicies
    /\ pc = "start"
    /\ model = <<>>
    /\ predictor = <<>>
    /\ gradEnabled = TRUE
    /\ fetched = {}
    /\ stashed = FALSE
    /\ scored = 0
    /\ started = FALSE
    /\ preds = <<>>
    /\ progress = NoProgress
    /\ trace = <<>>
    /\ returned = <<>>
    /\ selected = <<>>
    /\ files = [f \in 1..Len(FileNames) |-> NoFile]
    /\ error = "none"
    /\ widthUsed = {}
    /\ call = NoCall
    /\ ret = <<>>

NB == NumBatches(Len(dataset), args.batch_size)

\* line 244: prepare_model; an exception ends the run
PrepareModel ==
    /\ pc = "start"
    /\ LET r == prepare_model(args)
       IN /\ model' = r.mdl
          /\ error' = r.error
          /\ pc' = IF r.error = "none" THEN "prepared" ELSE "failed"
    /\ UNCHANGED <<args, dataset, sortTies, predictor, gradEnabled, fetched,
                   stashed, scored, started, preds, progress, trace,
                   returned, selected, files, widthUsed, call, ret>>

\* lines 245-256: model.beam_size, to_device, the predictor
ConstructPredictor ==
    /\ pc = "prepared"
    /\ model' = <<[model[1] EXCEPT !.beam_size = args.beam_size]>>
    /\ predictor' = <<[topk |-> args.top_k]>>
    /\ pc' = "ready"
    /\ UNCHANGED <<args, dataset, sortTies, gradEnabled, fetched, stashed,
                   scored, started, preds, progress, trace, returned,
                   selected, files, error, widthUsed, call, ret>>

\* lines 259-260: torch.no_grad() is entered and predict starts the run, which
\* calls on_run_started
StartRun ==
    /\ pc = "ready"
    /\ gradEnabled' = FALSE
    /\ progress' = on_run_started(dataset)
    /\ trace' = Append(trace, <<"on_run_started", 0, 0>>)
    /\ pc' = "running"
    /\ UNCHANGED <<args, dataset, sortTies, model, predictor, fetched,
                   stashed, scored, started, preds, returned, selected,
                   files, error, widthUsed, call, ret>>

\* a data-loader worker assembles its next batch ahead of the loop; stashed
\* records that some batch arrived before a batch of lower index, which the
\* loader holds back until its turn
WorkerFetch(wk) ==
    /\ pc = "running"
    /\ \E b \in 1..NB :
          /\ WorkerOf(b) = wk
          /\ b \notin fetched
          /\ \A b2 \in 1..(b - 1) : WorkerOf(b2) = wk => b2 \in fetched
          /\ fetched' = fetched \cup {b}
          /\ stashed' = (stashed \/ \E b2 \in 1..(b - 1) : b2 \notin fetched)
    /\ UNCHANGED <<args, dataset, sortTies, pc, model, predictor,
                   gradEnabled, scored, started, preds, progress, trace,
                   returned, selected, files, error, widthUsed, call, ret>>

\* the loader yields the next batch in index order and the loop calls
\* on_batch_started
BatchStarted ==
    /\ pc = "running"
    /\ ~started
    /\ scored < NB
    /\ (scored + 1) \in fetched
    /\ LET batch == LoaderBatch(dataset, args.batch_size, scored + 1)
       IN /\ progress' = on_batch_started(progress, batch)
          /\ trace' = Append(trace, <<"on_batch_started", scored + 1,
                                      Len(batch.string)>>)
    /\ started' = TRUE
    /\ UNCHANGED <<args, dataset, sortTies, pc, model, predictor,
                   gradEnabled, fetched, stashed, scored, preds, returned,
                   selected, files, error, widthUsed, call, ret>>

\* the batch is scored and decoded and its entries are appended
ScoreBatch ==
    /\ pc = "running"
    /\ started
    /\ LET batch == LoaderBatch(dataset, args.batch_size, scored + 1)
       IN /\ preds' = preds \o BatchEntries(predictor[1], model[1], batch,
                                            sortTies)
          /\ trace' = Append(trace, <<"scored", scored + 1,
                                      Len(batch.string)>>)
    /\ widthUsed' = widthUsed \cup {beam_width(model[1], predictor[1].topk)}
    /\ scored' = scored + 1
    /\ started' = FALSE
    /\ UNCHANGED <<args, dataset, sortTies, pc, model, predictor,
                   gradEnabled, fetched, stashed, progress, returned,
                   selected, files, error, call, ret>>

\* generate_on_error with the exception caught around predict and the
\* entries collected so far handed on to save
generate_salvage(e) ==
    /\ pc' = "predicted"
    /\ error' = e
    /\ gradEnabled' = TRUE
    /\ returned' = <<Collection(preds)>>
    /\ UNCHANGED <<selected, files>>

\* what generate does when predict raises (lines 259-264): nothing catches
\* the exception, the no_grad block is left and the statements after it are
\* not run
generate_on_error(e) ==
    /\ pc' = "failed"
    /\ error' = e
    /\ gradEnabled' = TRUE
    /\ UNCHANGED <<returned, selected, files>>

\* the model, the decoder or the ranker raises on the batch being scored
ModelFails ==
    /\ pc = "running"
    /\ started
    /\ trace' = Append(trace, <<"raised", scored + 1, 0>>)
    /\ generate_on_error("ModelError")
    /\ UNCHANGED <<args, dataset, sortTies, model, predictor, fetched,
                   stashed, scored, started, preds, progress, widthUsed,
                   call, ret>>

\* after the last batch the loop calls on_run_finished and returns the
\* collection; the no_grad block is left
RunFinished ==
    /\ pc = "running"
    /\ ~started
    /\ scored = NB
    /\ progress' = on_run_finished(progress)
    /\ trace' = Append(trace, <<"on_run_finished", 0, 0>>)
    /\ returned' = <<Collection(preds)>>
    /\ gradEnabled' = TRUE
    /\ pc' = "predicted"
    /\ UNCHANGED <<args, dataset, sortTies, model, predictor, fetched,
                   stashed, scored, started, preds, selected, files, error,
                   widthUsed, call, ret>>

\* lines 261-263: the first candidates; report_stats does nothing
SelectFirst ==
    /\ pc = "predicted"
    /\ selected' = <<first_candidates(returned[1])>>
    /\ pc' = "saving"
    /\ UNCHANGED <<args, dataset, sortTies, model, predictor, gradEnabled,
                   fetched, stashed, scored, started, preds, progress, trace,
                   returned, files, error, widthUsed, call, ret>>

NextFile == Cardinality({f \in 1..Len(FileNames) : files[f].written}) + 1

\* save, lines 215-218: the next file is opened and written
SaveFile ==
    /\ pc = "saving"
    /\ files' = [files EXCEPT
                   ![NextFile] = written_file(samples(selected[1], NextFile))]
    /\ pc' = IF NextFile = Len(FileNames) THEN "done" ELSE "saving"
    /\ UNCHANGED <<args, dataset, sortTies, model, predictor, gradEnabled,
                   fetched, stashed, scored, started, preds, progress, trace,
                   returned, selected, error, widthUsed, call, ret>>

\* save, line 216: open() of the next file raises; the files written before
\* it stay
SaveFails ==
    /\ pc = "saving"
    /\ pc' = "failed"
    /\ error' = "OSError"
    /\ UNCHANGED <<args, dataset, sortTies, model, predictor, gradEnabled,
                   fetched, stashed, scored, started, preds, progress, trace,
                   returned, selected, files, widthUsed, call, ret>>

Next ==
    \/ PrepareModel
    \/ ConstructPredictor
    \/ StartRun
    \/ \E wk \in Workers : WorkerFetch(wk)
    \/ BatchStarted
    \/ ScoreBatch
    \/ ModelFails
    \/ RunFinished
    \/ SelectFirst
    \/ SaveFile
    \/ SaveFails

Spec == Init /\ [][Next]_vars

----------------------------------------------------------------------------
(* Direct calls of the two halves of RNNBasedJLU.predict on drawn score
   tensors *)

SlotClasses == 0..num_slots
IntentClasses == 0..num_intents

\* the defaults of the argument parser (lines 40-49)
DefaultArgs ==
    [batch_size |-> 32, top_k |-> 1, beam_size |-> 6, expand_vocab |-> FALSE,
     emb_has_markers |-> TRUE]

NoRun ==
    /\ args = DefaultArgs
    /\ dataset = <<>>
    /\ pc = "call"
    /\ model = <<>>
    /\ predictor = <<>>
    /\ gradEnabled = FALSE
    /\ fetched = {}
    /\ stashed = FALSE
    /\ scored = 0
    /\ started = FALSE
    /\ preds = <<>>
    /\ progress = NoProgress
    /\ trace = <<>>
    /\ returned = <<>>
    /\ selected = <<>>
    /\ files = [f \in 1..Len(FileNames) |-> NoFile]
    /\ error = "none"
    /\ widthUsed = {}
    /\ ret = <<>>

runVars == <<args, dataset, sortTies, pc, model, predictor, gradEnabled,
             fetched, stashed, scored, started, preds, progress, trace,
             returned, selected, files, error, widthUsed>>

\* intent scores of one or two examples and a k that may exceed the classes
InitIntent ==
    /\ NoRun
    /\ sortTies \in TiePolicies
    /\ \E B \in {1, 2} :
          call \in [op : {"intents"},
                    igts : [1..B -> [IntentClasses -> IntentScores]],
                    topk : 1..(MaxK + 1)]

\* lines 112-115 on the drawn scores
RankIntents ==
    /\ call.op = "intents"
    /\ ret = <<>>
    /\ ret' = <<predict_intents(call.igts, call.topk, sortTies)>>
    /\ UNCHANGED <<runVars, call>>

SpecIntent == InitIntent /\ [][RankIntents]_vars

\* label scores of one example padded to MaxLen, its true length, and k
InitBeam ==
    /\ NoRun
    /\ sortTies = "lower_first"
    /\ call \in [op : {"slots"},
                 lgts : [1..1 -> [1..MaxLen -> [SlotClasses -> Scores]]],
                 lens : [1..1 -> 1..MaxLen],
                 topk : 1..MaxK]

\* lines 108-111 on the drawn scores
DecodeSlots ==
    /\ call.op = "slots"
    /\ ret = <<>>
    /\ ret' = <<predict_slots(call.lgts, call.lens, call.topk)>>
    /\ UNCHANGED <<runVars, call>>

SpecBeam == InitBeam /\ [][DecodeSlots]_vars

----------------------------------------------------------------------------
(* Properties of a run *)

N == Len(dataset)

\* the prediction for dataset example i scored on its own, unpadded
ExampleEntry(i) ==
    BatchEntries(predictor[1], model[1], collate(dataset, <<i>>), sortTies)[1]

\* the number of examples of batch b
BatchSize(b) == Min(args.batch_size, N - (b - 1) * args.batch_size)

\* the number of examples of batches 1..b
RECURSIVE ExamplesUpTo(_)
ExamplesUpTo(b) == IF b <= 0 THEN 0 ELSE BatchSize(b) + ExamplesUpTo(b - 1)

\* the batch numbers of the events of one kind, in trace order
EventsOf(kind) ==
    LET sel == SelectSeq(trace, LAMBDA e : e[1] = kind)
    IN [i \in 1..Len(sel) |-> sel[i][2]]

NoFileWritten == \A f \in 1..Len(FileNames) : ~files[f].written

\* C1: the collection predict returns has one entry per dataset example and
\* entry i is the prediction for example i, whatever the batch size and the
\* order in which the workers prefetched; while the run goes on the collected
\* entries are the predictions for the examples of the scored batches, in
\* order.
C1_ResultsInInputOrder ==
    /\ pc = "running" =>
          /\ Len(preds) = ExamplesUpTo(scored)
          /\ \A i \in 1..Len(preds) : preds[i] = ExampleEntry(i)
    /\ returned # <<>> =>
          LET r == returned[1]
          IN /\ Len(r.labels) = N /\ Len(r.pl) = N
             /\ Len(r.intents) = N /\ Len(r.pi) = N
             /\ \A i \in 1..N :
                   LET e == ExampleEntry(i)
                   IN /\ r.labels[i] = e.labels
                      /\ r.pl[i] = e.pl
                      /\ r.intents[i] = e.intents
                      /\ r.pi[i] = e.pi

\* a run over three examples in two batches (2 + 1) whose first and last
\* examples differ has returned, and its second batch was prefetched before
\* its first
C1_Witness ==
    /\ returned # <<>>
    /\ N = 3 /\ args.batch_size = 2
    /\ dataset[1] # dataset[3]
    /\ fetched = {1, 2}
    /\ stashed

\* C2: once the model raises on batch j the run is over: the raise is the last
\* event, batches 1..j-1 were each scored once and batch j was started once
\* and never scored, the caller holds the error, and no collection is
\* returned, selected or saved.
C2_AbortOnModelFailure ==
    \A i \in 1..Len(trace) :
        trace[i][1] = "raised" =>
            LET j == trace[i][2]
            IN /\ i = Len(trace)
               /\ pc = "failed"
               /\ error = "ModelError"
               /\ EventsOf("scored") = [b \in 1..(j - 1) |-> b]
               /\ EventsOf("on_batch_started") = [b \in 1..j |-> b]
               /\ Len(preds) = ExamplesUpTo(j - 1)
               /\ returned = <<>>
               /\ selected = <<>>
               /\ NoFileWritten

\* the model raised on the second batch, after the first was collected
C2_Witness ==
    /\ error = "ModelError"
    /\ scored = 1
    /\ Len(preds) >= 1
    /\ trace[Len(trace)] = <<"raised", 2, 0>>

\* C3: after a failed run either all four files are written, each with one
\* line per example, or none is.
C3_NoPartialOutput ==
    pc = "failed" =>
        \/ \A f \in 1..Len(FileNames) :
              files[f].written /\ Len(files[f].lines) = N
        \/ NoFileWritten

\* C4: on_run_started is the first event and fires once; every batch is
\* started, in order, right before it is scored; on_run_finished fires once,
\* last, after all batches, and every completed run has fired it; the counter
\* exists from on_run_started on with total N, holds the example count of the
\* started batches, never exceeds N and is closed at N.
C4_HookOrder ==
    /\ \A i \in 1..Len(trace) :
          /\ (trace[i][1] = "on_run_started") <=> (i = 1)
          /\ trace[i][1] = "on_batch_started" =>
                /\ trace[i][2] = Len(SelectSeq(SubSeq(trace, 1, i),
                        LAMBDA e : e[1] = "on_batch_started"))
                /\ trace[i][3] = BatchSize(trace[i][2])
                /\ trace[i - 1][1] \in {"on_run_started", "scored"}
          /\ trace[i][1] = "scored" =>
                trace[i - 1] = <<"on_batch_started", trace[i][2], trace[i][3]>>
          /\ trace[i][1] = "on_run_finished" =>
                /\ i = Len(trace)
                /\ EventsOf("scored") = [b \in 1..NB |-> b]
    /\ pc \in {"predicted", "saving", "done"} =>
          trace[Len(trace)][1] = "on_run_finished"
    /\ (progress.state = "none") <=> (trace = <<>>)
    /\ progress.state = "none" => progress.n = 0
    /\ progress.state # "none" =>
          /\ progress.total = N
          /\ progress.n = ExamplesUpTo(Len(EventsOf("on_batch_started")))
          /\ progress.n <= progress.total
    /\ (progress.state = "closed") <=>
          (trace # <<>> /\ trace[Len(trace)][1] = "on_run_finished")
    /\ progress.state = "closed" => progress.n = progress.total

\* a run of three examples in two batches has closed its counter
C4_Witness ==
    /\ progress.state = "closed"
    /\ N = 3 /\ args.batch_size = 2
    /\ progress.n = 3

\* C5: with expand_vocab set and a reserved marker missing from the
\* replacement vocabulary, the run has failed with VocabularyExpansionError
\* as soon as prepare_model has run, with no predictor, no hook, no scored
\* batch and no file.
C5_VocabExpansionFailsFast ==
    (args.expand_vocab /\ ~args.emb_has_markers /\ pc # "start") =>
        /\ pc = "failed"
        /\ error = "VocabularyExpansionError"
        /\ predictor = <<>>
        /\ trace = <<>>
        /\ scored = 0
        /\ NoFileWritten

\* C8: after a successful run every file has N lines, each ended by a
\* newline, and line i of the four files is the first label sentence, the
\* first intent and their two probabilities of the prediction for example i.
C8_FilesAligned ==
    pc = "done" =>
        /\ \A f \in 1..Len(FileNames) :
              /\ files[f].written
              /\ Len(files[f].lines) = N
              /\ \A i \in 1..N : files[f].lines[i][2] = "\n"
        /\ \A i \in 1..N :
              LET e == ExampleEntry(i)
              IN /\ files[1].lines[i][1] = join(split(e.labels[1]))
                 /\ files[2].lines[i][1] = e.intents[1]
                 /\ files[3].lines[i][1] = py_str(e.pl[1])
                 /\ files[4].lines[i][1] = py_str(e.pi[1])

\* all four files of a three-example, two-batch run are written and the
\* label and intent probabilities of some example differ
C8_Witness ==
    /\ pc = "done"
    /\ N = 3 /\ args.batch_size = 2
    /\ dataset[1] # dataset[2]
    /\ \E i \in 1..N : files[3].lines[i] # files[4].lines[i]

\* C9: while the run loop is active gradients are off; from prepare_model on
\* the model's parameters are the checkpoint's, before the first batch, after
\* every batch and at the end of the run.
C9_InferenceOnly ==
    /\ pc = "running" => ~gradEnabled
    /\ model # <<>> => model[1].params = Checkpoint
    /\ (started \/ scored > 0 \/ preds # <<>>) =>
          (model # <<>> /\ model[1].params = Checkpoint)

\* the last of two batches has been scored inside the no_grad block
C9_Witness ==
    /\ pc = "running"
    /\ scored = 2 /\ NB = 2
    /\ ~gradEnabled
    /\ model[1].params # ResetParams

\* the collection a run with beam size b in place of the configured one
\* returns, and the files it saves
RunCollection(b) ==
    Collection(Flatten([j \in 1..NB |->
        BatchEntries(predictor[1], [model[1] EXCEPT !.beam_size = b],
                     LoaderBatch(dataset, args.batch_size, j), sortTies)]))

RunFiles(b) ==
    [f \in 1..Len(FileNames) |->
        written_file(samples(first_candidates(RunCollection(b)), f))]

\* C10: the decoder's beam width is always top_k, and the returned collection
\* and the saved files are those of the same run under any other beam size.
C10_BeamSizeIgnored ==
    /\ widthUsed \subseteq {args.top_k}
    /\ pc = "predicted" =>
          \A b \in BeamSizes : returned[1] = RunCollection(b)
    /\ pc = "done" =>
          \A b \in BeamSizes :
              returned[1] = RunCollection(b) /\ files = RunFiles(b)

\* a run with beam size 1 and top_k 2 has saved its files: a decoder of width
\* beam_size would have returned one candidate per example, not two
C10_Witness ==
    /\ pc = "done"
    /\ args.beam_size = 1 /\ args.top_k = 2
    /\ model[1].beam_size = 1
    /\ widthUsed = {2}
    /\ \A i \in 1..N : Len(returned[1].labels[i]) = 2

----------------------------------------------------------------------------
(* Properties of the two halves of predict *)

\* C6: for each example the ranking returns min(k, classes) distinct intent
\* ids with their softmax probabilities, none of the classes left out is more
\* probable than a returned one, the probabilities do not increase, and of
\* two equally probable classes the lower id comes first (and is the one
\* returned when only one of them is).
C6_IntentTopK ==
    (call.op = "intents" /\ ret # <<>>) =>
        \A b \in 1..Len(call.igts) :
            LET p == softmax(call.igts[b])
                r == ret[1][b]
                n == Len(r.candidates)
            IN /\ n = Min(call.topk, Cardinality(IntentClasses))
               /\ Len(r.probs) = n
               /\ \A i \in 1..n :
                     /\ r.candidates[i] \in IntentClasses
                     /\ r.probs[i] = p[r.candidates[i]]
               /\ \A i, j \in 1..n :
                     i < j =>
                        /\ r.candidates[i] # r.candidates[j]
                        /\ r.probs[i] >= r.probs[j]
                        /\ r.probs[i] = r.probs[j] =>
                              r.candidates[i] < r.candidates[j]
               /\ \A c \in IntentClasses :
                     (\A i \in 1..n : r.candidates[i] # c) =>
                        \A i \in 1..n :
                           /\ p[c] <= r.probs[i]
                           /\ p[c] = r.probs[i] => r.candidates[i] < c

\* what the ranking guarantees whatever order the sort leaves equal keys in:
\* the statement of C6 without its rule for equal probabilities
IntentTopKUpToTies ==
    (call.op = "intents" /\ ret # <<>>) =>
        \A b \in 1..Len(call.igts) :
            LET p == softmax(call.igts[b])
                r == ret[1][b]
                n == Len(r.candidates)
            IN /\ n = Min(call.topk, Cardinality(IntentClasses))
               /\ Len(r.probs) = n
               /\ \A i \in 1..n :
                     /\ r.candidates[i] \in IntentClasses
                     /\ r.probs[i] = p[r.candidates[i]]
               /\ \A i, j \in 1..n :
                     i < j =>
                        /\ r.candidates[i] # r.candidates[j]
                        /\ r.probs[i] >= r.probs[j]
               /\ \A c \in IntentClasses :
                     (\A i \in 1..n : r.candidates[i] # c) =>
                        \A i \in 1..n : p[c] <= r.probs[i]

\* the label sequences of length len
AllSeqs(len) == [1..len -> SlotClasses]

\* the cumulative log-probability of label sequence s
SeqScore(lp, s) == SeqSum([t \in 1..Len(s) |-> lp[t][s[t]]])

====
